---- MODULE Spec2Model ----
(***************************************************************************)
(* pscanner: a concurrent TCP port scanner (cmd/pscanner/main.go).         *)
(*                                                                         *)
(* The module models                                                       *)
(*   - parsePorts, the port-set resolver, as operators over strings        *)
(*     (a string is a sequence of one-character strings);                  *)
(*   - main, worker and the two anonymous goroutines (the coordinator that *)
(*     waits on the WaitGroup and closes resultsCh, the distributor that   *)
(*     feeds and closes portsCh) as a state machine, one action per        *)
(*     blocking step.                                                      *)
(***************************************************************************)
EXTENDS FiniteSets, Integers, Sequences, TLC

(***************************************************************************)
(* Bounds of the model and constants of the program.                       *)
(***************************************************************************)
\* SpecResolve: a port specification has at most MaxTokens comma-separated tokens.
MaxTokens == 2

\* Spec: a port specification has at most MaxScanTokens comma-separated tokens.
MaxScanTokens == 2

\* Spec: the small requested worker counts tried are 1..MaxSmallWorkers.
MaxSmallWorkers == 3

\* main.go:37,48: the largest valid port number.
MaxPort == 65535

\* main.go:116: the largest accepted --workers value.
MaxWorkers == 10000

(***************************************************************************)
(* Strings.                                                                *)
(***************************************************************************)
DigitChars == <<"0", "1", "2", "3", "4", "5", "6", "7", "8", "9">>

IsDigit(c) == \E i \in 1..10 : DigitChars[i] = c

DigitVal(c) == (CHOOSE i \in 1..10 : DigitChars[i] = c) - 1

\* unicode.IsSpace, for the ASCII white space
IsSpace(c) == c \in {" ", "\t", "\n", "\r", "\f"}

\* strings.Index for a one-character separator: 0 when absent.
IndexOf(s, c) ==
  IF \E i \in 1..Len(s) : s[i] = c
  THEN CHOOSE i \in 1..Len(s) : s[i] = c /\ \A j \in 1..(i - 1) : s[j] # c
  ELSE 0

\* strings.Contains(p, "-")
Contains(s, c) == IndexOf(s, c) # 0

\* strings.TrimSpace
RECURSIVE TrimLeft(_)
TrimLeft(s) ==
  IF s # <<>> /\ IsSpace(Head(s)) THEN TrimLeft(Tail(s)) ELSE s

RECURSIVE TrimRight(_)
TrimRight(s) ==
  IF s # <<>> /\ IsSpace(s[Len(s)])
  THEN TrimRight(SubSeq(s, 1, Len(s) - 1))
  ELSE s

TrimSpace(s) == TrimRight(TrimLeft(s))

\* strings.Split(spec, ","): always at least one part, separators dropped.
RECURSIVE Split(_, _)
Split(s, c) ==
  LET i == IndexOf(s, c)
  IN  IF i = 0
      THEN <<s>>
      ELSE <<SubSeq(s, 1, i - 1)>> \o Split(SubSeq(s, i + 1, Len(s)), c)

\* strings.SplitN(p, "-", 2): the text before and after the first separator.
SplitN2(s, c) ==
  LET i == IndexOf(s, c)
  IN  IF i = 0
      THEN <<s>>
      ELSE <<SubSeq(s, 1, i - 1), SubSeq(s, i + 1, Len(s))>>

(***************************************************************************)
(* strconv.Atoi: an optional sign, then one or more decimal digits; the    *)
(* value must fit the platform int (64 bits), else the call fails with a   *)
(* range error.  The magnitude is compared as a digit string so that the   *)
(* range test does not itself overflow.                                    *)
(***************************************************************************)
\* 2^63 - 1 and 2^63 as digit strings.
MaxIntDigits ==
  <<"9","2","2","3","3","7","2","0","3","6","8","5","4","7","7","5","8","0","7">>

MinIntDigits ==
  <<"9","2","2","3","3","7","2","0","3","6","8","5","4","7","7","5","8","0","8">>

RECURSIVE StripZeros(_)
StripZeros(s) ==
  IF Len(s) > 1 /\ Head(s) = "0" THEN StripZeros(Tail(s)) ELSE s

\* a > b for digit strings of equal length
RECURSIVE DigitsGreater(_, _)
DigitsGreater(a, b) ==
  IF a = <<>> THEN FALSE
  ELSE IF DigitVal(Head(a)) # DigitVal(Head(b))
       THEN DigitVal(Head(a)) > DigitVal(Head(b))
       ELSE DigitsGreater(Tail(a), Tail(b))

ExceedsLimit(digits, limit) ==
  LET d == StripZeros(digits)
  IN  \/ Len(d) > Len(limit)
      \/ Len(d) = Len(limit) /\ DigitsGreater(d, limit)

RECURSIVE DigitsValue(_, _)
DigitsValue(s, acc) ==
  IF s = <<>> THEN acc ELSE DigitsValue(Tail(s), acc * 10 + DigitVal(Head(s)))

Atoi(s) ==
  LET neg    == s # <<>> /\ Head(s) = "-"
      signed == s # <<>> /\ Head(s) \in {"+", "-"}
      digits == IF signed THEN Tail(s) ELSE s
  IN  IF digits = <<>> \/ \E i \in 1..Len(digits) : ~IsDigit(digits[i])
      THEN [ok |-> FALSE, val |-> 0]
      ELSE IF ExceedsLimit(digits, IF neg THEN MinIntDigits ELSE MaxIntDigits)
      THEN [ok |-> FALSE, val |-> 0]
      ELSE [ok |-> TRUE,
            val |-> IF neg THEN 0 - DigitsValue(digits, 0)
                           ELSE DigitsValue(digits, 0)]

(***************************************************************************)
(* parsePorts.                                                             *)
(***************************************************************************)
\* the error values of parsePorts, by the text of their fmt.Errorf format
NoError == "nil"
ErrInvalidPort == "invalid port"
ErrInvalidRange == "invalid range bounds"
ErrPortOutOfRange == "port out of range"

\* parseRange with the loop of main.go:40 stopping before end
parseRangeExclusive(p, set) ==
  LET bounds == SplitN2(p, "-")
      start  == Atoi(TrimSpace(bounds[1]))
      end    == Atoi(TrimSpace(bounds[2]))
  IN  IF ~start.ok THEN [err |-> ErrInvalidPort, set |-> {}]
      ELSE IF ~end.ok THEN [err |-> ErrInvalidPort, set |-> {}]
      ELSE IF \/ start.val < 1 \/ end.val < 1
              \/ start.val > MaxPort \/ end.val > MaxPort
              \/ start.val > end.val
      THEN [err |-> ErrInvalidRange, set |-> {}]
      ELSE [err |-> NoError, set |-> set \cup (start.val .. (end.val - 1))]

\* main.go:24-42: a token that contains "-"
parseRange(p, set) ==
  LET bounds == SplitN2(p, "-")
      start  == Atoi(TrimSpace(bounds[1]))
      end    == Atoi(TrimSpace(bounds[2]))
  IN  IF ~start.ok THEN [err |-> ErrInvalidPort, set |-> {}]
      ELSE IF ~end.ok THEN [err |-> ErrInvalidPort, set |-> {}]
      ELSE IF \/ start.val < 1 \/ end.val < 1
              \/ start.val > MaxPort \/ end.val > MaxPort
              \/ start.val > end.val
      THEN [err |-> ErrInvalidRange, set |-> {}]
      ELSE [err |-> NoError, set |-> set \cup (start.val .. end.val)]

\* parseSingle with the lower limit tested as n < 0
parseSingleZeroOk(p, set) ==
  LET n == Atoi(p)
  IN  IF ~n.ok THEN [err |-> ErrInvalidPort, set |-> {}]
      ELSE IF n.val < 0 \/ n.val > MaxPort
      THEN [err |-> ErrPortOutOfRange, set |-> {}]
      ELSE [err |-> NoError, set |-> set \cup {n.val}]

\* main.go:43-52: a token without "-"
parseSingle(p, set) ==
  LET n == Atoi(p)
  IN  IF ~n.ok THEN [err |-> ErrInvalidPort, set |-> {}]
      ELSE IF n.val < 1 \/ n.val > MaxPort
      THEN [err |-> ErrPortOutOfRange, set |-> {}]
      ELSE [err |-> NoError, set |-> set \cup {n.val}]

\* parseLoop without the skip of empty tokens (main.go:21-23)
RECURSIVE parseLoopNoSkip(_, _, _)
parseLoopNoSkip(parts, i, set) ==
  IF i > Len(parts) THEN [err |-> NoError, set |-> set]
  ELSE LET p == TrimSpace(parts[i])
           r == IF Contains(p, "-") THEN parseRange(p, set)
                                    ELSE parseSingle(p, set)
       IN  IF r.err # NoError THEN r
           ELSE parseLoopNoSkip(parts, i + 1, r.set)

\* main.go:19-53: the loop over the parts, from part i on; the first error returns
RECURSIVE parseLoop(_, _, _)
parseLoop(parts, i, set) ==
  IF i > Len(parts) THEN [err |-> NoError, set |-> set]
  ELSE LET p == TrimSpace(parts[i])
       IN  IF p = <<>> THEN parseLoop(parts, i + 1, set)
           ELSE LET r == IF Contains(p, "-") THEN parseRange(p, set)
                                             ELSE parseSingle(p, set)
                IN  IF r.err # NoError THEN r
                    ELSE parseLoop(parts, i + 1, r.set)

\* SortInts that leaves the slice as it is
SortIntsNone(s) == s

\* sort.Ints, as an insertion sort
RECURSIVE Insert(_, _)
Insert(x, s) ==
  IF s = <<>> THEN <<x>>
  ELSE IF x <= Head(s) THEN <<x>> \o s
  ELSE <<Head(s)>> \o Insert(x, Tail(s))

RECURSIVE SortInts(_)
SortInts(s) ==
  IF s = <<>> THEN <<>> ELSE Insert(Head(s), SortInts(Tail(s)))

\* main.go:55: ranging over a map visits its keys in an unspecified order
RECURSIVE MapKeyOrders(_)
MapKeyOrders(S) ==
  IF S = {} THEN {<<>>}
  ELSE UNION {{<<k>> \o rest : rest \in MapKeyOrders(S \ {k})} : k \in S}

\* main.go:15-60: every result parsePorts can return for spec (one per key order)
parsePorts(spec) ==
  LET r == parseLoop(Split(spec, ","), 1, {})
  IN  IF r.err # NoError
      THEN {[ports |-> <<>>, err |-> r.err]}
      ELSE {[ports |-> SortInts(order), err |-> NoError] :
               order \in MapKeyOrders(r.set)}

(***************************************************************************)
(* The inputs: port specifications built from described tokens.  A token   *)
(* carries its text and what the text denotes (kind, lo, hi), so that a    *)
(* property can compare what parsePorts makes of the text with what the    *)
(* text was written to mean.                                               *)
(***************************************************************************)
\* decimal formatting of a natural number
RECURSIVE Itoa(_)
Itoa(n) ==
  IF n < 10 THEN <<DigitChars[n + 1]>>
  ELSE Itoa(n \div 10) \o <<DigitChars[(n % 10) + 1]>>

\* a 20-digit number: an integer that does not fit a 64-bit int
HugeDigits == [i \in 1..20 |-> "9"]

BlankTok(text) == [text |-> text, kind |-> "blank", lo |-> 0, hi |-> 0, fits |-> TRUE]

SingleTok(n) == [text |-> Itoa(n), kind |-> "single", lo |-> n, hi |-> n, fits |-> TRUE]

RangeTok(a, b) ==
  [text |-> Itoa(a) \o <<"-">> \o Itoa(b), kind |-> "range",
   lo |-> a, hi |-> b, fits |-> TRUE]

JunkTok(text) == [text |-> text, kind |-> "junk", lo |-> 0, hi |-> 0, fits |-> TRUE]

\* the same token written with other characters
Written(tok, text) == [tok EXCEPT !.text = text]

ResolveTokens ==
  { BlankTok(<<>>), BlankTok(<<" ", "\t">>),
    SingleTok(80), SingleTok(21), SingleTok(0), SingleTok(65536),
    Written(SingleTok(1), <<" ", "1", "\t">>),
    Written(SingleTok(5), <<"+", "5">>),
    Written(SingleTok(7), <<"0", "7">>),
    RangeTok(20, 22), RangeTok(22, 23), RangeTok(65534, 65535),
    RangeTok(5, 3), RangeTok(0, 2), RangeTok(65535, 65536),
    Written(RangeTok(20, 21), <<"2", "0", " ", "-", "\t", "2", "1">>),
    [text |-> <<"5", "-", "-", "3">>, kind |-> "range",
     lo |-> 5, hi |-> 0 - 3, fits |-> TRUE],
    JunkTok(<<"a", "b", "c">>), JunkTok(<<"1", "0", "-">>), JunkTok(<<"-", "1", "0">>),
    JunkTok(<<"1", "-", "2", "-", "3">>), JunkTok(<<"8", " ", "0">>), JunkTok(<<"+">>),
    [text |-> HugeDigits, kind |-> "single", lo |-> 0, hi |-> 0, fits |-> FALSE],
    [text |-> <<"1", "-">> \o HugeDigits, kind |-> "range",
     lo |-> 1, hi |-> 0, fits |-> FALSE] }

ScanTokens ==
  { BlankTok(<<>>), BlankTok(<<" ", "\t">>), SingleTok(80), RangeTok(20, 21),
    JunkTok(<<"a", "b", "c">>), SingleTok(0) }

\* every sequence of at most n tokens of T
TokenSeqs(T, n) == UNION {[1..k -> T] : k \in 0..n}

\* the specification text: the token texts joined by commas
RECURSIVE Join(_)
Join(texts) ==
  IF texts = <<>> THEN <<>>
  ELSE IF Len(texts) = 1 THEN texts[1]
  ELSE texts[1] \o <<",">> \o Join(Tail(texts))

Render(toks) == Join([i \in 1..Len(toks) |-> toks[i].text])

(***************************************************************************)
(* State.                                                                  *)
(***************************************************************************)
VARIABLES
  toks,          \* the tokens portsFlag was written from (input description)
  hostFlag,      \* --host: a string, "" when absent
  portsFlag,     \* --ports: the specification text
  workersFlag,   \* --workers
  mainPc,        \* main's position
  exitCode,      \* the process's exit code, -1 while it runs
  ports,         \* main.go:121 ports
  err,           \* main.go:121 err
  chansMade,     \* whether portsCh and resultsCh exist (main.go:131-132)
  portsChCap,    \* capacity of portsCh
  portsCh,       \* the buffered contents of portsCh
  portsClosed,   \* close(portsCh) has run
  resultsClosed, \* close(resultsCh) has run
  wg,            \* the WaitGroup's counter
  numWorkers,    \* main.go:136 numWorkers
  workerPc,      \* worker goroutines started so far: id -> position
  cur,           \* worker id -> the port p of its current loop iteration
  coordPc,       \* the goroutine of main.go:145-148
  distPc,        \* the goroutine of main.go:150-155
  idx,           \* the distributor's index into ports
  open,          \* main.go:157 open
  dialCount,     \* history: port -> number of net.DialTimeout calls made for it
  succeeded,     \* history: the ports whose dial returned err == nil
  resultsChCap,  \* capacity of resultsCh
  closers,       \* history: channel -> the goroutines that closed it, in order
  taken          \* history: the ports received from portsCh, in order

vars ==
  <<toks, hostFlag, portsFlag, workersFlag, mainPc, exitCode, ports, err,
    chansMade, portsChCap, portsCh, portsClosed, resultsClosed, wg, numWorkers,
    workerPc, cur, coordPc, distPc, idx, open, dialCount, succeeded,
    resultsChCap, closers, taken>>

inputVars == <<toks, hostFlag, portsFlag, workersFlag>>

engineVars ==
  <<chansMade, portsChCap, portsCh, portsClosed, resultsClosed, wg, numWorkers,
    workerPc, cur, coordPc, distPc, idx, open, dialCount, succeeded,
    resultsChCap, closers, taken>>

\* the state before main has done anything
Fresh ==
  /\ exitCode = -1
  /\ ports = <<>>
  /\ err = NoError
  /\ chansMade = FALSE
  /\ portsChCap = 0
  /\ portsCh = <<>>
  /\ portsClosed = FALSE
  /\ resultsClosed = FALSE
  /\ wg = 0
  /\ numWorkers = 0
  /\ workerPc = <<>>
  /\ cur = <<>>
  /\ coordPc = "unborn"
  /\ distPc = "unborn"
  /\ idx = 1
  /\ open = <<>>
  /\ dialCount = <<>>
  /\ succeeded = {}
  /\ resultsChCap = 0
  /\ closers = [portsCh |-> <<>>, resultsCh |-> <<>>]
  /\ taken = <<>>

WorkerCounts == (0 - 1 .. MaxSmallWorkers) \cup {MaxWorkers, MaxWorkers + 1}

Init ==
  /\ toks \in TokenSeqs(ScanTokens, MaxScanTokens)
  /\ portsFlag = Render(toks)
  /\ hostFlag \in {"", "example.com"}
  /\ workersFlag \in WorkerCounts
  /\ mainPc = "start"
  /\ Fresh

(***************************************************************************)
(* main, up to the start of the goroutines.                                *)
(***************************************************************************)
\* WorkersRejected without the lower limit
WorkersRejectedNoMin(w) == w > MaxWorkers

\* WorkersRejected without the upper limit
WorkersRejectedNoMax(w) == w <= 0

\* main.go:112,116: the two tests that reject --workers
WorkersRejected(w) == w <= 0 \/ w > MaxWorkers

\* Clamp without the clamp: one worker per requested worker
ClampNone(w, n) == w

\* main.go:136-139: numWorkers for w requested workers and n ports
Clamp(w, n) == IF w > n THEN n ELSE w

Exit(code) ==
  /\ mainPc' = "exited"
  /\ exitCode' = code

\* main.go:106-110
MainNoHost ==
  /\ mainPc = "start"
  /\ hostFlag = ""
  /\ Exit(2)
  /\ UNCHANGED <<inputVars, ports, err, engineVars>>

\* main.go:112-119
MainBadWorkers ==
  /\ mainPc = "start"
  /\ hostFlag # ""
  /\ WorkersRejected(workersFlag)
  /\ Exit(2)
  /\ UNCHANGED <<inputVars, ports, err, engineVars>>

\* main.go:121-125
MainBadPorts ==
  /\ mainPc = "start"
  /\ hostFlag # ""
  /\ ~WorkersRejected(workersFlag)
  /\ \E r \in parsePorts(portsFlag) :
       /\ r.err # NoError
       /\ ports' = r.ports
       /\ err' = r.err
  /\ Exit(2)
  /\ UNCHANGED <<inputVars, engineVars>>

\* MainNoPorts treating the empty port set as an error
MainNoPortsAsError ==
  /\ mainPc = "start"
  /\ hostFlag # ""
  /\ ~WorkersRejected(workersFlag)
  /\ \E r \in parsePorts(portsFlag) :
       /\ r.err = NoError
       /\ Len(r.ports) = 0
       /\ ports' = r.ports
       /\ err' = r.err
  /\ Exit(2)
  /\ UNCHANGED <<inputVars, engineVars>>

\* main.go:121-129
MainNoPorts ==
  /\ mainPc = "start"
  /\ hostFlag # ""
  /\ ~WorkersRejected(workersFlag)
  /\ \E r \in parsePorts(portsFlag) :
       /\ r.err = NoError
       /\ Len(r.ports) = 0
       /\ ports' = r.ports
       /\ err' = r.err
  /\ Exit(0)
  /\ UNCHANGED <<inputVars, engineVars>>

\* MainSetup making portsCh with the clamped worker count as its capacity
MainSetupClampedCap ==
  /\ mainPc = "start"
  /\ hostFlag # ""
  /\ ~WorkersRejected(workersFlag)
  /\ \E r \in parsePorts(portsFlag) :
       /\ r.err = NoError
       /\ Len(r.ports) # 0
       /\ ports' = r.ports
       /\ err' = r.err
       /\ numWorkers' = Clamp(workersFlag, Len(r.ports))
  /\ chansMade' = TRUE
  /\ portsChCap' = numWorkers'
  /\ resultsChCap' = 0
  /\ mainPc' = "spawn"
  /\ UNCHANGED <<inputVars, closers, taken, exitCode, portsCh, portsClosed,
                 resultsClosed, wg, workerPc, cur, coordPc, distPc, idx, open,
                 dialCount, succeeded>>

\* main.go:121-139: the checks pass; the channels are made, numWorkers is clamped
MainSetup ==
  /\ mainPc = "start"
  /\ hostFlag # ""
  /\ ~WorkersRejected(workersFlag)
  /\ \E r \in parsePorts(portsFlag) :
       /\ r.err = NoError
       /\ Len(r.ports) # 0
       /\ ports' = r.ports
       /\ err' = r.err
       /\ numWorkers' = Clamp(workersFlag, Len(r.ports))
  /\ chansMade' = TRUE
  /\ portsChCap' = workersFlag
  /\ resultsChCap' = 0
  /\ mainPc' = "spawn"
  /\ UNCHANGED <<inputVars, closers, taken, exitCode, portsCh, portsClosed,
                 resultsClosed, wg, workerPc, cur, coordPc, distPc, idx, open,
                 dialCount, succeeded>>

(***************************************************************************)
(* main, from the start of the goroutines on.  os.Exit and the return of   *)
(* main end the process: no goroutine takes a step once exitCode is set.   *)
(***************************************************************************)
Running == exitCode = -1

\* MainSpawn without wg.Add(1)
MainSpawnNoAdd ==
  /\ mainPc = "spawn"
  /\ Len(workerPc) < numWorkers
  /\ wg' = wg
  /\ workerPc' = Append(workerPc, "recv")
  /\ cur' = Append(cur, 0)
  /\ UNCHANGED <<inputVars, resultsChCap, closers, taken, mainPc, exitCode,
                 ports, err, chansMade, portsChCap, portsCh, portsClosed,
                 resultsClosed, numWorkers, coordPc, distPc, idx, open,
                 dialCount, succeeded>>

\* main.go:140-143: one iteration of the loop that starts the workers
MainSpawn ==
  /\ mainPc = "spawn"
  /\ Len(workerPc) < numWorkers
  /\ wg' = wg + 1
  /\ workerPc' = Append(workerPc, "recv")
  /\ cur' = Append(cur, 0)
  /\ UNCHANGED <<inputVars, resultsChCap, closers, taken, mainPc, exitCode,
                 ports, err, chansMade, portsChCap, portsCh, portsClosed,
                 resultsClosed, numWorkers, coordPc, distPc, idx, open,
                 dialCount, succeeded>>

\* main.go:140,145: the loop ends; go func() { wg.Wait(); close(resultsCh) }()
MainGoCoordinator ==
  /\ mainPc = "spawn"
  /\ ~(Len(workerPc) < numWorkers)
  /\ coordPc' = "wait"
  /\ mainPc' = "goDistributor"
  /\ UNCHANGED <<inputVars, resultsChCap, closers, taken, exitCode, ports, err,
                 chansMade, portsChCap, portsCh, portsClosed, resultsClosed,
                 wg, numWorkers, workerPc, cur, distPc, idx, open, dialCount,
                 succeeded>>

\* main.go:150: go func() { for _, p := range ports ... }()
MainGoDistributor ==
  /\ mainPc = "goDistributor"
  /\ distPc' = "send"
  /\ mainPc' = "collect"
  /\ UNCHANGED <<inputVars, resultsChCap, closers, taken, exitCode, ports, err,
                 chansMade, portsChCap, portsCh, portsClosed, resultsClosed,
                 wg, numWorkers, workerPc, cur, coordPc, idx, open, dialCount,
                 succeeded>>

\* DistSend that never blocks on a full buffer
DistSendUnbounded ==
  /\ Running
  /\ distPc = "send"
  /\ idx <= Len(ports)
  /\ ~portsClosed
  /\ portsCh' = Append(portsCh, ports[idx])
  /\ idx' = idx + 1
  /\ UNCHANGED <<inputVars, resultsChCap, closers, taken, mainPc, exitCode,
                 ports, err, chansMade, portsChCap, portsClosed, resultsClosed,
                 wg, numWorkers, workerPc, cur, coordPc, distPc, open,
                 dialCount, succeeded>>

\* main.go:151-153: portsCh <- p, which blocks while the buffer is full
DistSend ==
  /\ Running
  /\ distPc = "send"
  /\ idx <= Len(ports)
  /\ ~portsClosed
  /\ Len(portsCh) < portsChCap
  /\ portsCh' = Append(portsCh, ports[idx])
  /\ idx' = idx + 1
  /\ UNCHANGED <<inputVars, resultsChCap, closers, taken, mainPc, exitCode,
                 ports, err, chansMade, portsChCap, portsClosed, resultsClosed,
                 wg, numWorkers, workerPc, cur, coordPc, distPc, open,
                 dialCount, succeeded>>

\* main.go:154: close(portsCh)
DistClose ==
  /\ Running
  /\ distPc = "send"
  /\ idx > Len(ports)
  /\ portsClosed' = TRUE
  /\ distPc' = "done"
  /\ closers' = [closers EXCEPT !.portsCh = Append(@, "distributor")]
  /\ UNCHANGED <<inputVars, resultsChCap, taken, mainPc, exitCode, ports, err,
                 chansMade, portsChCap, portsCh, resultsClosed, wg, numWorkers,
                 workerPc, cur, coordPc, idx, open, dialCount, succeeded>>

\* WorkerTake receiving the newest buffered port instead of the oldest
WorkerTakeLast(w) ==
  /\ Running
  /\ workerPc[w] = "recv"
  /\ portsCh # <<>>
  /\ cur' = [cur EXCEPT ![w] = portsCh[Len(portsCh)]]
  /\ portsCh' = SubSeq(portsCh, 1, Len(portsCh) - 1)
  /\ workerPc' = [workerPc EXCEPT ![w] = "dial"]
  /\ taken' = Append(taken, portsCh[Len(portsCh)])
  /\ UNCHANGED <<inputVars, resultsChCap, closers, mainPc, exitCode, ports,
                 err, chansMade, portsChCap, portsClosed, resultsClosed, wg,
                 numWorkers, coordPc, distPc, idx, open, dialCount, succeeded>>

\* main.go:64: for p := range ports receives the oldest buffered port
WorkerTake(w) ==
  /\ Running
  /\ workerPc[w] = "recv"
  /\ portsCh # <<>>
  /\ cur' = [cur EXCEPT ![w] = Head(portsCh)]
  /\ portsCh' = Tail(portsCh)
  /\ workerPc' = [workerPc EXCEPT ![w] = "dial"]
  /\ taken' = Append(taken, Head(portsCh))
  /\ UNCHANGED <<inputVars, resultsChCap, closers, mainPc, exitCode, ports,
                 err, chansMade, portsChCap, portsClosed, resultsClosed, wg,
                 numWorkers, coordPc, distPc, idx, open, dialCount, succeeded>>

\* the dial history after one more call for port p
Dialed(p) ==
  IF p \in DOMAIN dialCount
  THEN [dialCount EXCEPT ![p] = @ + 1]
  ELSE (p :> 1) @@ dialCount

\* WorkerDial with the worker returning when the dial fails
WorkerDialExitOnFail(w) ==
  /\ Running
  /\ workerPc[w] = "dial"
  /\ dialCount' = Dialed(cur[w])
  /\ \E ok \in BOOLEAN :
       IF ok
       THEN /\ succeeded' = succeeded \cup {cur[w]}
            /\ workerPc' = [workerPc EXCEPT ![w] = "send"]
       ELSE /\ succeeded' = succeeded
            /\ workerPc' = [workerPc EXCEPT ![w] = "done"]
  /\ UNCHANGED <<inputVars, resultsChCap, closers, taken, mainPc, exitCode,
                 ports, err, chansMade, portsChCap, portsCh, portsClosed,
                 resultsClosed, wg, numWorkers, cur, coordPc, distPc, idx,
                 open>>

\* WorkerDial without the test of err: every dialed port is sent
WorkerDialAlwaysSend(w) ==
  /\ Running
  /\ workerPc[w] = "dial"
  /\ dialCount' = Dialed(cur[w])
  /\ \E ok \in BOOLEAN :
       IF ok
       THEN /\ succeeded' = succeeded \cup {cur[w]}
            /\ workerPc' = [workerPc EXCEPT ![w] = "send"]
       ELSE /\ succeeded' = succeeded
            /\ workerPc' = [workerPc EXCEPT ![w] = "send"]
  /\ UNCHANGED <<inputVars, resultsChCap, closers, taken, mainPc, exitCode,
                 ports, err, chansMade, portsChCap, portsCh, portsClosed,
                 resultsClosed, wg, numWorkers, cur, coordPc, distPc, idx,
                 open>>

\* main.go:65-70: net.DialTimeout returns with or without an error
WorkerDial(w) ==
  /\ Running
  /\ workerPc[w] = "dial"
  /\ dialCount' = Dialed(cur[w])
  /\ \E ok \in BOOLEAN :
       IF ok
       THEN /\ succeeded' = succeeded \cup {cur[w]}
            /\ workerPc' = [workerPc EXCEPT ![w] = "send"]
       ELSE /\ succeeded' = succeeded
            /\ workerPc' = [workerPc EXCEPT ![w] = "recv"]
  /\ UNCHANGED <<inputVars, resultsChCap, closers, taken, mainPc, exitCode,
                 ports, err, chansMade, portsChCap, portsCh, portsClosed,
                 resultsClosed, wg, numWorkers, cur, coordPc, distPc, idx,
                 open>>

\* Deliver with a send that completes without main receiving the port
DeliverUnreceived(w) ==
  /\ Running
  /\ workerPc[w] = "send"
  /\ ~resultsClosed
  /\ resultsChCap = 0
  /\ open' = open
  /\ workerPc' = [workerPc EXCEPT ![w] = "recv"]
  /\ UNCHANGED <<inputVars, resultsChCap, closers, taken, mainPc, exitCode,
                 ports, err, chansMade, portsChCap, portsCh, portsClosed,
                 resultsClosed, wg, numWorkers, cur, coordPc, distPc, idx,
                 dialCount, succeeded>>

\* main.go:69 and 158-159: resultsCh is unbuffered, so the worker's send and
\* main's receive are one step
Deliver(w) ==
  /\ Running
  /\ mainPc = "collect"
  /\ workerPc[w] = "send"
  /\ ~resultsClosed
  /\ resultsChCap = 0
  /\ open' = Append(open, cur[w])
  /\ workerPc' = [workerPc EXCEPT ![w] = "recv"]
  /\ UNCHANGED <<inputVars, resultsChCap, closers, taken, mainPc, exitCode,
                 ports, err, chansMade, portsChCap, portsCh, portsClosed,
                 resultsClosed, wg, numWorkers, cur, coordPc, distPc, idx,
                 dialCount, succeeded>>

\* WorkerExit leaving as soon as portsCh is empty, closed or not
WorkerExitOnEmpty(w) ==
  /\ Running
  /\ workerPc[w] = "recv"
  /\ portsCh = <<>>
  /\ wg' = wg - 1
  /\ workerPc' = [workerPc EXCEPT ![w] = "done"]
  /\ UNCHANGED <<inputVars, resultsChCap, closers, taken, mainPc, exitCode,
                 ports, err, chansMade, portsChCap, portsCh, portsClosed,
                 resultsClosed, numWorkers, cur, coordPc, distPc, idx, open,
                 dialCount, succeeded>>

\* WorkerExit without the deferred wg.Done()
WorkerExitNoDone(w) ==
  /\ Running
  /\ workerPc[w] = "recv"
  /\ portsCh = <<>>
  /\ portsClosed
  /\ workerPc' = [workerPc EXCEPT ![w] = "done"]
  /\ UNCHANGED <<inputVars, resultsChCap, closers, taken, mainPc, exitCode,
                 ports, err, chansMade, portsChCap, portsCh, portsClosed,
                 resultsClosed, wg, numWorkers, cur, coordPc, distPc, idx,
                 open, dialCount, succeeded>>

\* WorkerExit with the exiting worker closing resultsCh itself
WorkerExitClosing(w) ==
  /\ Running
  /\ workerPc[w] = "recv"
  /\ portsCh = <<>>
  /\ portsClosed
  /\ wg' = wg - 1
  /\ resultsClosed' = TRUE
  /\ closers' = [closers EXCEPT !.resultsCh = Append(@, "worker")]
  /\ workerPc' = [workerPc EXCEPT ![w] = "done"]
  /\ UNCHANGED <<inputVars, resultsChCap, taken, mainPc, exitCode, ports, err,
                 chansMade, portsChCap, portsCh, portsClosed, numWorkers, cur,
                 coordPc, distPc, idx, open, dialCount, succeeded>>

\* main.go:63-64,72: the range loop ends on a closed and drained portsCh; the
\* deferred wg.Done() runs
WorkerExit(w) ==
  /\ Running
  /\ workerPc[w] = "recv"
  /\ portsCh = <<>>
  /\ portsClosed
  /\ wg' = wg - 1
  /\ workerPc' = [workerPc EXCEPT ![w] = "done"]
  /\ UNCHANGED <<inputVars, resultsChCap, closers, taken, mainPc, exitCode,
                 ports, err, chansMade, portsChCap, portsCh, portsClosed,
                 resultsClosed, numWorkers, cur, coordPc, distPc, idx, open,
                 dialCount, succeeded>>

\* CoordWait returning without waiting for the counter to reach zero
CoordWaitNoWait ==
  /\ Running
  /\ coordPc = "wait"
  /\ coordPc' = "close"
  /\ UNCHANGED <<inputVars, resultsChCap, closers, taken, mainPc, exitCode,
                 ports, err, chansMade, portsChCap, portsCh, portsClosed,
                 resultsClosed, wg, numWorkers, workerPc, cur, distPc, idx,
                 open, dialCount, succeeded>>

\* main.go:146: wg.Wait() returns when the counter is zero
CoordWait ==
  /\ Running
  /\ coordPc = "wait"
  /\ wg = 0
  /\ coordPc' = "close"
  /\ UNCHANGED <<inputVars, resultsChCap, closers, taken, mainPc, exitCode,
                 ports, err, chansMade, portsChCap, portsCh, portsClosed,
                 resultsClosed, wg, numWorkers, workerPc, cur, distPc, idx,
                 open, dialCount, succeeded>>

\* main.go:147: close(resultsCh)
CoordClose ==
  /\ Running
  /\ coordPc = "close"
  /\ resultsClosed' = TRUE
  /\ coordPc' = "done"
  /\ closers' = [closers EXCEPT !.resultsCh = Append(@, "coordinator")]
  /\ UNCHANGED <<inputVars, resultsChCap, taken, mainPc, exitCode, ports, err,
                 chansMade, portsChCap, portsCh, portsClosed, wg, numWorkers,
                 workerPc, cur, distPc, idx, open, dialCount, succeeded>>

\* MainFinish without sort.Ints(open)
MainFinishUnsorted ==
  /\ mainPc = "collect"
  /\ resultsClosed
  /\ Exit(0)
  /\ UNCHANGED <<inputVars, resultsChCap, closers, taken, ports, err,
                 chansMade, portsChCap, portsCh, portsClosed, resultsClosed,
                 wg, numWorkers, workerPc, cur, coordPc, distPc, idx, open,
                 dialCount, succeeded>>

\* main.go:158-175: the range over the closed resultsCh ends; open is sorted and
\* printed, main returns
MainFinish ==
  /\ mainPc = "collect"
  /\ resultsClosed
  /\ open' = SortInts(open)
  /\ Exit(0)
  /\ UNCHANGED <<inputVars, resultsChCap, closers, taken, ports, err,
                 chansMade, portsChCap, portsCh, portsClosed, resultsClosed,
                 wg, numWorkers, workerPc, cur, coordPc, distPc, idx,
                 dialCount, succeeded>>

Workers == DOMAIN workerPc

\* main.go:104-139: the checks of main and the set-up of the engine
Validate ==
  \/ MainNoHost
  \/ MainBadWorkers
  \/ MainBadPorts
  \/ MainNoPorts
  \/ MainSetup

\* main.go:62-72,140-175: the steps of the goroutines of the scan
Engine ==
  \/ MainSpawn
  \/ MainGoCoordinator
  \/ MainGoDistributor
  \/ DistSend
  \/ DistClose
  \/ \E w \in Workers : WorkerTake(w)
  \/ \E w \in Workers : WorkerDial(w)
  \/ \E w \in Workers : Deliver(w)
  \/ \E w \in Workers : WorkerExit(w)
  \/ CoordWait
  \/ CoordClose
  \/ MainFinish

Next == Validate \/ Engine

Spec == Init /\ [][Next]_vars

\* the scheduler: while some goroutine of the scan can take a step, one does
FairSpec ==
  /\ Spec
  /\ WF_vars(Engine)

(***************************************************************************)
(* parsePorts on its own: one call on each specification text.             *)
(***************************************************************************)
InitResolve ==
  /\ toks \in TokenSeqs(ResolveTokens, MaxTokens)
  /\ portsFlag = Render(toks)
  /\ hostFlag = "example.com"
  /\ workersFlag = 1
  /\ mainPc = "call"
  /\ Fresh

\* main.go:121: ports, err := parsePorts(*portsFlag)
Resolve ==
  /\ mainPc = "call"
  /\ \E r \in parsePorts(portsFlag) :
       /\ ports' = r.ports
       /\ err' = r.err
  /\ mainPc' = "returned"
  /\ UNCHANGED <<inputVars, exitCode, engineVars>>

NextResolve == Resolve

SpecResolve == InitResolve /\ [][NextResolve]_vars

(***************************************************************************)
(* Properties.                                                             *)
(***************************************************************************)
Elems(s) == {s[i] : i \in DOMAIN s}

IsStrictlyAscending(s) == \A i \in 1..(Len(s) - 1) : s[i] < s[i + 1]

Min(a, b) == IF a < b THEN a ELSE b

\* the engine ran and main has returned
ScanReturned == mainPc = "exited" /\ chansMade

RECURSIVE SumOver(_, _)
SumOver(f, S) ==
  IF S = {} THEN 0
  ELSE LET x == CHOOSE x \in S : TRUE IN f[x] + SumOver(f, S \ {x})

\* the number of dial attempts made so far
TotalDials == SumOver(dialCount, DOMAIN dialCount)

\* C1 - Scan completeness: no port is ever dialed twice and nothing outside the
\* port set is dialed; when the scan has returned every port of the port set
\* has been dialed exactly once, so the number of dial attempts is K = |ports|.
C1_ScanCompleteness ==
  /\ \A p \in DOMAIN dialCount : dialCount[p] = 1 /\ p \in Elems(ports)
  /\ ScanReturned =>
       /\ DOMAIN dialCount = Elems(ports)
       /\ TotalDials = Len(ports)

\* a scan of three ports by at least two dialers has returned
C1_Witness ==
  /\ ScanReturned
  /\ Len(ports) = 3
  /\ Len(workerPc) >= 2
  /\ TotalDials = 3

\* C2 - Scan correctness: when the scan has returned, the list it returns is
\* the ascending sort of the set S of ports whose dial succeeded: strictly
\* ascending (nothing repeated) with exactly the elements of S, whatever the
\* worker count and the interleaving.
C2_ScanCorrectness ==
  ScanReturned =>
    /\ IsStrictlyAscending(open)
    /\ Elems(open) = succeeded

\* a scan by several dialers returned two open ports and one dial failed
C2_Witness ==
  /\ ScanReturned
  /\ Len(workerPc) >= 2
  /\ Len(open) = 2
  /\ Len(ports) = 3

\* C3 - Termination: once the engine has been set up (non-empty port set,
\* worker count >= 1), and given that every enabled step is eventually taken
\* (every dial finishes), main returns; in particular no state on the way is
\* one where every goroutine is blocked.
C3_Termination == chansMade ~> ScanReturned

\* a scan of three ports in which every dial failed has returned
C3_Witness ==
  /\ ScanReturned
  /\ Len(ports) = 3
  /\ TotalDials = 3
  /\ succeeded = {}
  /\ open = <<>>

\* C4 - Worker clamping: never more than min(requested, K) dialers exist, and
\* from the end of the start-up loop on exactly min(requested, K) dialers have
\* been started and numWorkers, the count reported as used, is that number;
\* so no dialer is started once the distributor runs.
C4_WorkerClamping ==
  chansMade =>
    /\ Len(workerPc) <= Min(workersFlag, Len(ports))
    /\ mainPc \in {"goDistributor", "collect", "exited"} =>
         /\ Len(workerPc) = Min(workersFlag, Len(ports))
         /\ numWorkers = Min(workersFlag, Len(ports))

\* more workers requested than ports: the scan ran with K dialers
C4_Witness ==
  /\ ScanReturned
  /\ workersFlag > Len(ports)
  /\ Len(ports) = 3
  /\ Len(workerPc) = 3
  /\ numWorkers = 3

(***************************************************************************)
(* What a specification was written to mean, from the token descriptions.  *)
(***************************************************************************)
InPortRange(n) == 1 <= n /\ n <= 65535

\* the token names ports: a port number, or a range a-b with 1 <= a <= b <= 65535
TokNamesPorts(t) ==
  /\ t.kind \in {"single", "range"}
  /\ t.fits
  /\ InPortRange(t.lo) /\ InPortRange(t.hi) /\ t.lo <= t.hi

TokValid(t) == t.kind = "blank" \/ TokNamesPorts(t)

AllValid(ts) == \A i \in 1..Len(ts) : TokValid(ts[i])

Denotes(t) == IF t.kind = "blank" THEN {} ELSE t.lo .. t.hi

DenotesAll(ts) == UNION {Denotes(ts[i]) : i \in 1..Len(ts)}

\* host missing, worker count out of 1..10000, or a token that names no ports
BadConfig ==
  \/ hostFlag = ""
  \/ workersFlag <= 0
  \/ workersFlag > 10000
  \/ ~AllValid(toks)

NoConcurrentWork ==
  /\ ~chansMade
  /\ workerPc = <<>>
  /\ coordPc = "unborn"
  /\ distPc = "unborn"
  /\ dialCount = <<>>
  /\ portsCh = <<>>

\* C5 - Fail-fast: with a missing host, a worker count <= 0 or > 10000, or a
\* port specification that does not resolve, main goes from its start straight
\* to its exit: no channel is ever made, no worker, distributor or coordinator
\* is started and no dial is made.
C5_FailFast ==
  BadConfig =>
    /\ mainPc \in {"start", "exited"}
    /\ NoConcurrentWork

\* host and worker count are fine, the specification starts with a good port
\* and then has a bad token: the run has ended without any concurrent work
C5_Witness ==
  /\ mainPc = "exited"
  /\ hostFlag # ""
  /\ workersFlag = 2
  /\ Len(toks) = 2
  /\ TokNamesPorts(toks[1])
  /\ ~TokValid(toks[2])
  /\ NoConcurrentWork

\* C6 - Exit codes: a run that has ended has exit code 2 exactly when the host
\* is missing, the worker count is <= 0 or > 10000 or the port specification
\* is unparseable, and exit code 0 otherwise, whatever the dials returned.
C6_ExitCodes ==
  /\ mainPc = "exited" => exitCode = (IF BadConfig THEN 2 ELSE 0)
  /\ mainPc # "exited" => exitCode = -1

\* a completed scan in which a dial failed has exit code 0
C6_Witness ==
  /\ ScanReturned
  /\ exitCode = 0
  /\ Len(ports) = 2
  /\ Cardinality(succeeded) = 1
  /\ TotalDials = 2

\* the text has nothing but blanks and commas
BlankText(text) == \A i \in 1..Len(text) : text[i] \in {" ", "\t", ","}

\* C7 - Empty input: a specification that is empty or has only blank tokens
\* and commas resolves to the empty sequence without error; the engine is
\* never started for it, and the run (host and worker count being valid, so
\* that the resolver is reached) ends with exit code 0.
C7_EmptyInput ==
  BlankText(portsFlag) =>
    /\ parsePorts(portsFlag) = {[ports |-> <<>>, err |-> NoError]}
    /\ NoConcurrentWork
    /\ (mainPc = "exited" /\ hostFlag # "" /\ workersFlag >= 1 /\ workersFlag <= 10000) =>
         /\ exitCode = 0
         /\ ports = <<>>
         /\ err = NoError

\* the run on a specification of two blank tokens and a comma has ended with 0
C7_Witness ==
  /\ mainPc = "exited"
  /\ exitCode = 0
  /\ Len(toks) = 2
  /\ BlankText(portsFlag)
  /\ Len(portsFlag) >= 3
  /\ NoConcurrentWork

\* C8 - Resolver result: for a specification whose non-empty tokens are all
\* valid, parsePorts returns without error the union of the ports the tokens
\* name as a strictly ascending sequence of ports in [1,65535], each once, and
\* a single range a-b yields b-a+1 entries.
C8_ResolverResult ==
  (mainPc = "returned" /\ AllValid(toks)) =>
    /\ err = NoError
    /\ IsStrictlyAscending(ports)
    /\ Elems(ports) = DenotesAll(toks)
    /\ Len(ports) = Cardinality(DenotesAll(toks))
    /\ \A i \in 1..Len(ports) : InPortRange(ports[i])
    /\ (Len(toks) = 1 /\ toks[1].kind = "range") =>
         Len(ports) = toks[1].hi - toks[1].lo + 1

\* two overlapping ranges, out of order, resolved to their union
C8_Witness ==
  /\ mainPc = "returned"
  /\ toks = <<RangeTok(22, 23), RangeTok(20, 22)>>
  /\ ports = <<20, 21, 22, 23>>

\* the sequence ts in the order given by the permutation f of its indices
Permuted(ts, f) == [i \in 1..Len(ts) |-> ts[f[i]]]

\* the comma-joined decimal text of a sequence of ports
PortsText(ps) == Join([i \in 1..Len(ps) |-> Itoa(ps[i])])

\* C9 - For a valid specification, every permutation of its tokens resolves
\* to the same sequence, and resolving the comma-joined result resolves to
\* that sequence again.
C9_OrderIndependentIdempotent ==
  (mainPc = "returned" /\ AllValid(toks)) =>
    /\ \A f \in Permutations(1..Len(toks)) :
         parsePorts(Render(Permuted(toks, f))) =
           {[ports |-> ports, err |-> NoError]}
    /\ parsePorts(PortsText(ports)) = {[ports |-> ports, err |-> NoError]}

\* "80,21" resolved to 21, 80
C9_Witness ==
  /\ mainPc = "returned"
  /\ toks = <<SingleTok(80), SingleTok(21)>>
  /\ ports = <<21, 80>>

\* the index of the first token that is not valid
FirstInvalid(ts) ==
  CHOOSE i \in 1..Len(ts) : ~TokValid(ts[i]) /\ \A j \in 1..(i - 1) : TokValid(ts[j])

\* the error kind of an invalid token when every string of digits counts as an
\* integer: a number token that names no ports is out of range
ClaimedKind(t) ==
  IF t.kind = "junk" THEN ErrInvalidPort
  ELSE IF t.kind = "range" THEN ErrInvalidRange
  ELSE ErrPortOutOfRange

\* the error kind of an invalid token when a number that does not fit an int
\* counts as not an integer
FittingKind(t) ==
  IF t.kind = "junk" \/ ~t.fits THEN ErrInvalidPort
  ELSE IF t.kind = "range" THEN ErrInvalidRange
  ELSE ErrPortOutOfRange

\* C10 as stated - parsePorts fails exactly when some token is invalid, with
\* the kind of the first invalid token; an integer outside [1,65535] is
\* PortOutOfRange (single) or InvalidRange (range side), whatever its size.
C10_AsStated ==
  mainPc = "returned" =>
    IF AllValid(toks)
    THEN err = NoError
    ELSE /\ err = ClaimedKind(toks[FirstInvalid(toks)])
         /\ ports = <<>>

\* C10 - Resolver errors: parsePorts fails, returning no ports, exactly when
\* some non-empty token is invalid, with the kind of the first invalid token:
\* InvalidPort for a token or range side that is not an integer fitting an
\* int, InvalidRange for a range with a<1, b<1, a>65535, b>65535 or a>b,
\* PortOutOfRange for a single integer outside [1,65535].
C10_ResolverErrors ==
  mainPc = "returned" =>
    IF AllValid(toks)
    THEN err = NoError
    ELSE /\ err = FittingKind(toks[FirstInvalid(toks)])
         /\ ports = <<>>

\* a good port, then an inverted range: the call failed with InvalidRange
C10_Witness ==
  /\ mainPc = "returned"
  /\ toks = <<SingleTok(80), RangeTok(5, 3)>>
  /\ err = ErrInvalidRange
  /\ ports = <<>>

(***************************************************************************)
(* Properties of the shutdown protocol and of the channels.                *)
(***************************************************************************)
\* the workers at one of the given positions
WorkersAt(pcs) == {w \in DOMAIN workerPc : workerPc[w] \in pcs}

AllWorkersExited ==
  /\ Len(workerPc) = numWorkers
  /\ \A w \in DOMAIN workerPc : workerPc[w] = "done"

\* the effective worker count
Effective == Min(workersFlag, Len(ports))

\* C11 - Shutdown protocol ordering: portsCh is closed only when the
\* distributor has enqueued every port; a worker has exited only when portsCh
\* is closed and drained; resultsCh is closed only when every worker has
\* exited; main's receive loop has ended only when resultsCh is closed,
\* whatever the number of results received.
C11_ShutdownOrdering ==
  /\ portsClosed => (idx = Len(ports) + 1 /\ distPc = "done")
  /\ \A w \in DOMAIN workerPc :
       workerPc[w] = "done" => (portsClosed /\ portsCh = <<>>)
  /\ (resultsClosed \/ coordPc \in {"close", "done"}) => AllWorkersExited
  /\ ScanReturned => resultsClosed

\* a scan of three ports by several workers went through the whole shutdown
C11_Witness ==
  /\ ScanReturned
  /\ Len(ports) = 3
  /\ Len(workerPc) >= 2
  /\ portsClosed
  /\ resultsClosed
  /\ Len(open) = 3

\* C12 - One closer per channel: portsCh is closed at most once and only by
\* the distributor, resultsCh at most once and only by the coordinator, each
\* exactly once by the time the scan returns; no worker is sending on a closed
\* resultsCh and the distributor has nothing left to send on a closed portsCh.
C12_SingleCloser ==
  /\ closers.portsCh \in {<<>>, <<"distributor">>}
  /\ closers.resultsCh \in {<<>>, <<"coordinator">>}
  /\ portsClosed <=> closers.portsCh # <<>>
  /\ resultsClosed <=> closers.resultsCh # <<>>
  /\ ScanReturned =>
       (closers.portsCh = <<"distributor">> /\ closers.resultsCh = <<"coordinator">>)
  /\ resultsClosed => WorkersAt({"send"}) = {}
  /\ portsClosed => ~(distPc = "send" /\ idx <= Len(ports))

\* both channels have been closed in a scan with several workers and results
C12_Witness ==
  /\ closers = [portsCh |-> <<"distributor">>, resultsCh |-> <<"coordinator">>]
  /\ Len(workerPc) >= 2
  /\ Len(open) >= 2

\* C13 as stated - portsCh has capacity min(workerCount, |ports|), resultsCh
\* has capacity 0.
C13_AsStated ==
  chansMade => (portsChCap = Effective /\ resultsChCap = 0)

\* C13 - portsCh is made buffered with the requested worker count as its
\* capacity, which is at least the effective worker count; resultsCh is made
\* unbuffered.
C13_ChannelCapacities ==
  chansMade =>
    /\ portsChCap = workersFlag
    /\ portsChCap >= Effective
    /\ Len(portsCh) <= portsChCap
    /\ resultsChCap = 0

\* more workers were requested than there are ports: the capacity is the request
C13_Witness ==
  /\ chansMade
  /\ workersFlag = 2
  /\ Len(ports) = 1
  /\ portsChCap = 2
  /\ numWorkers = 1

\* each port received from portsCh has one dial, or none yet while its worker
\* is about to dial it
OneDialPerTakenPort ==
  \A i \in 1..Len(taken) :
    IF \E w \in WorkersAt({"dial"}) : cur[w] = taken[i]
    THEN taken[i] \notin DOMAIN dialCount
    ELSE taken[i] \in DOMAIN dialCount /\ dialCount[taken[i]] = 1

\* a worker exits only from its receive on the closed, drained portsCh; a
\* worker that dials goes on to its send or to its next receive
ExitsOnlyOnExhaustion ==
  \A w \in DOMAIN workerPc :
    /\ (workerPc[w] # "done" /\ workerPc'[w] = "done") =>
         (workerPc[w] = "recv" /\ portsClosed /\ portsCh = <<>>)
    /\ workerPc[w] = "dial" => workerPc'[w] \in {"dial", "send", "recv"}

\* C14 - A dialer terminates only by exhausting the job channel: whenever a
\* worker has exited portsCh is closed and empty, no dial outcome makes a
\* worker exit, and every port received is dialed exactly once (no retry).
C14_DialerExitsOnlyOnExhaustion ==
  /\ [](\A w \in DOMAIN workerPc :
          workerPc[w] = "done" => (portsClosed /\ portsCh = <<>>))
  /\ []OneDialPerTakenPort
  /\ [][ExitsOnlyOnExhaustion]_vars

\* one worker dialed all three ports, two dials failed, and only then exited
C14_Witness ==
  /\ Len(workerPc) = 1
  /\ workerPc[1] = "done"
  /\ TotalDials = 3
  /\ Cardinality(succeeded) = 1

\* C15 - Result emission: a worker is sending p only if its dial of p
\* succeeded, and every port whose dial succeeded is being sent or has been
\* collected, once: the collected values are distinct ports of the port set
\* whose dial succeeded.
C15_ResultEmission ==
  LET sending == {cur[w] : w \in WorkersAt({"send"})}
  IN  /\ sending \subseteq succeeded
      /\ Elems(open) \subseteq (succeeded \cap Elems(ports))
      /\ Cardinality(Elems(open)) = Len(open)
      /\ succeeded = Elems(open) \cup sending
      /\ Len(open) + Cardinality(WorkersAt({"send"})) = Cardinality(succeeded)

\* one result collected, one being sent, one dial failed
C15_Witness ==
  /\ mainPc = "collect"
  /\ Len(open) = 1
  /\ Cardinality(WorkersAt({"send"})) = 1
  /\ TotalDials = 3
  /\ Cardinality(succeeded) = 2

\* the ports received from portsCh whose handling is not finished: received,
\* and neither dialed without success nor collected by main
InFlight == Len(taken) - (TotalDials - Cardinality(succeeded)) - Len(open)

\* a worker blocked on its send keeps its port and leaves the send only by
\* main receiving that port
SendBlocksUntilReceived ==
  \A w \in DOMAIN workerPc :
    workerPc[w] = "send" =>
      /\ cur'[w] = cur[w]
      /\ workerPc'[w] # "send" =>
           (workerPc'[w] = "recv" /\ open' = Append(open, cur[w]) /\ taken' = taken)

\* C16 - Backpressure: a worker whose dial succeeded stays on its send, taking
\* no further job, until main has received its port; each worker holds at most
\* one port, so the ports in flight are at most the effective worker count.
C16_Backpressure ==
  /\ [](chansMade =>
          /\ InFlight = Cardinality(WorkersAt({"dial", "send"}))
          /\ InFlight <= Effective)
  /\ [][SendBlocksUntilReceived]_vars

\* three workers each hold a port: two block on their send, one is dialing
C16_Witness ==
  /\ Cardinality(WorkersAt({"send"})) = 2
  /\ Cardinality(WorkersAt({"dial"})) = 1
  /\ InFlight = 3
  /\ open = <<>>

\* C17 - The distributor enqueues the ports in ascending order and then closes
\* portsCh; the ports are received from portsCh in that order: what has been
\* received followed by what is buffered is the enqueued prefix of ports, and
\* the sequence of receptions is strictly ascending.
C17_AscendingDistribution ==
  /\ IsStrictlyAscending(ports)
  /\ idx >= 1 /\ idx <= Len(ports) + 1
  /\ taken \o portsCh = SubSeq(ports, 1, idx - 1)
  /\ IsStrictlyAscending(taken)
  /\ portsClosed => idx = Len(ports) + 1
  /\ ScanReturned => taken = ports

\* three ports were received in ascending order by several workers
C17_Witness ==
  /\ ScanReturned
  /\ taken = <<20, 21, 80>>
  /\ Len(workerPc) >= 2

\* C18 - Whenever the engine runs the effective worker count is in 1..10000,
\* and once the start-up loop is over at least one worker exists.
C18_AtLeastOneWorker ==
  chansMade =>
    /\ numWorkers >= 1
    /\ numWorkers <= 10000
    /\ mainPc # "spawn" => Len(workerPc) >= 1
    /\ distPc # "unborn" => Len(workerPc) >= 1

\* one requested worker drains a port set of three
C18_Witness ==
  /\ chansMade
  /\ workersFlag = 1
  /\ numWorkers = 1
  /\ Len(ports) = 3
  /\ Len(taken) = 3

\* C19 - The number of ports buffered in portsCh never exceeds the effective
\* worker count min(requested, |ports|), although its capacity is the
\* requested worker count.
C19_BufferedWithinEffective ==
  chansMade => Len(portsCh) <= Effective

\* the capacity is 10000 and all three ports are buffered
C19_Witness ==
  /\ portsChCap = 10000
  /\ Len(portsCh) = 3
  /\ Effective = 3

\* C20 - WaitGroup accounting: the counter is the number of workers started
\* and not yet exited (one Add per start, one Done per exit), never negative;
\* every worker is started before the coordinator goroutine exists; wg.Wait()
\* has returned only when every worker has been started and has exited.
C20_WaitGroupAccounting ==
  /\ wg >= 0
  /\ wg = Cardinality(WorkersAt({"recv", "dial", "send"}))
  /\ coordPc # "unborn" => Len(workerPc) = numWorkers
  /\ coordPc \in {"close", "done"} => AllWorkersExited

\* wg.Wait() has returned after three workers exited
C20_Witness ==
  /\ coordPc = "close"
  /\ Len(workerPc) = 3
  /\ wg = 0
  /\ TotalDials = 3

====
